---- MODULE Spec2Model ----
(***************************************************************************)
(* Model of app.py, the script-to-video generator: the scene segmenter     *)
(* (split_into_scenes), the keyword extractor (safe_keyword_text), the     *)
(* image fetch with its placeholder fallback, and the run of build_video   *)
(* started by the "Generate Video" button.                                 *)
(*                                                                         *)
(* Text is a sequence of one-character strings, so that trimming,          *)
(* splitting and slicing are computed character by character as Python     *)
(* computes them.  Durations are integers, in milliseconds.                *)
(***************************************************************************)
EXTENDS Integers, Sequences, FiniteSets

VARIABLES pc, script, keywords, secrets, scenes, i, audio, query, ok,
          clips, effects, error, output, text, fallback

vars == <<pc, script, keywords, secrets, scenes, i, audio, query, ok,
          clips, effects, error, output, text, fallback>>

----------------------------------------------------------------------------
(* Bounds of the model *)

\* longest script handed to split_into_scenes in SpecSegment
MaxScriptLen == 7
\* most tokens in a scene text handed to safe_keyword_text in SpecKeyword
MaxTextTokens == 7
\* length of the long paragraph among the scripts of a run
LongLen == 130
\* most words in a fallback handed to safe_keyword_text in SpecKeyword
MaxFallbackWords == 7
\* narration durations of a run are DurStep, 2*DurStep, .. MaxDurSteps*DurStep ms
DurStep == 60
MaxDurSteps == 3

----------------------------------------------------------------------------
(* Characters and Python's string primitives *)

\* what str.strip(), str.split() and the regex class \s treat as whitespace
WhiteSpace == {" ", "\n", "\t"}

\* the regex class [A-Za-z0-9]
AlnumChars ==
  {"a","b","c","d","e","f","g","h","i","j","k","l","m","n","o","p","q","r",
   "s","t","u","v","w","x","y","z",
   "A","B","C","D","E","F","G","H","I","J","K","L","M","N","O","P","Q","R",
   "S","T","U","V","W","X","Y","Z",
   "0","1","2","3","4","5","6","7","8","9"}

\* the regex class [.!?]
SentenceEnd == {".", "!", "?"}

Min(a, b) == IF a <= b THEN a ELSE b
Max(a, b) == IF a >= b THEN a ELSE b

\* s[:n]
Take(s, n) == SubSeq(s, 1, Min(n, Len(s)))

\* s[n:]
Drop(s, n) == SubSeq(s, n + 1, Len(s))

RECURSIVE LStrip(_)
LStrip(s) ==
  IF s # <<>> /\ Head(s) \in WhiteSpace THEN LStrip(Tail(s)) ELSE s

RECURSIVE RStrip(_)
RStrip(s) ==
  IF s # <<>> /\ s[Len(s)] \in WhiteSpace
  THEN RStrip(SubSeq(s, 1, Len(s) - 1)) ELSE s

\* str.strip()
Strip(s) == RStrip(LStrip(s))

\* "\n\n" in s
HasBlank(s) == \E k \in 1..(Len(s) - 1) : s[k] = "\n" /\ s[k + 1] = "\n"

\* s.split("\n\n"): cut at each occurrence, found left to right
RECURSIVE SplitBlank(_)
SplitBlank(s) ==
  IF ~HasBlank(s) THEN <<s>>
  ELSE LET k == CHOOSE k \in 1..(Len(s) - 1) :
                  /\ s[k] = "\n" /\ s[k + 1] = "\n"
                  /\ \A j \in 1..(k - 1) : ~(s[j] = "\n" /\ s[j + 1] = "\n")
       IN <<SubSeq(s, 1, k - 1)>> \o SplitBlank(Drop(s, k + 1))

\* [p.strip() for p in parts if p.strip()]
RECURSIVE StripNonEmpty(_)
StripNonEmpty(parts) ==
  IF parts = <<>> THEN <<>>
  ELSE LET p == Strip(Head(parts))
       IN (IF p # <<>> THEN <<p>> ELSE <<>>) \o StripNonEmpty(Tail(parts))

\* sep.join(parts)
RECURSIVE Join(_, _)
Join(parts, sep) ==
  IF parts = <<>> THEN <<>>
  ELSE IF Len(parts) = 1 THEN Head(parts)
  ELSE Head(parts) \o sep \o Join(Tail(parts), sep)

\* length of the whitespace run that starts s
RECURSIVE SpaceRun(_)
SpaceRun(s) ==
  IF s # <<>> /\ Head(s) \in WhiteSpace THEN 1 + SpaceRun(Tail(s)) ELSE 0

\* re.split(r'(?<=[.!?])\s+', s): cut out each whitespace run that follows
\* a sentence end, found left to right
RECURSIVE ReSplitSentences(_)
ReSplitSentences(s) ==
  LET At(k) == s[k] \in WhiteSpace /\ s[k - 1] \in SentenceEnd
  IN IF ~\E k \in 2..Len(s) : At(k) THEN <<s>>
     ELSE LET k == CHOOSE k \in 2..Len(s) :
                     At(k) /\ \A j \in 2..(k - 1) : ~At(j)
              run == SpaceRun(Drop(s, k - 1))
          IN <<SubSeq(s, 1, k - 1)>> \o ReSplitSentences(Drop(s, k - 1 + run))

----------------------------------------------------------------------------
(* split_into_scenes *)

\* a chunk size that is off by one
ChunkSizeOff == 3 - 1

\* chunk size of the sentence fallback
ChunkSize == 3

\* the sentences of the trimmed script
Sentences(s) == StripNonEmpty(ReSplitSentences(s))

\* the for loop over the sentences, and the flush of the last chunk
RECURSIVE ChunkLoop(_, _, _)
ChunkLoop(sentences, acc, chunk) ==
  IF sentences = <<>>
  THEN IF chunk # <<>> THEN Append(acc, Join(chunk, <<" ">>)) ELSE acc
  ELSE LET c == Append(chunk, Head(sentences))
       IN IF Len(c) >= ChunkSize
          THEN ChunkLoop(Tail(sentences), Append(acc, Join(c, <<" ">>)), <<>>)
          ELSE ChunkLoop(Tail(sentences), acc, c)

\* the sentence path of split_into_scenes
SentenceScenes(s) ==
  LET sc == ChunkLoop(Sentences(s), <<>>, <<>>)
  IN IF sc # <<>> THEN sc ELSE <<s>>

\* the blank-line path without the trimming and the dropping of empty parts
BlankLinePartsRaw(s) == SplitBlank(s)

\* the blank-line path of split_into_scenes
BlankLineParts(s) == StripNonEmpty(SplitBlank(s))

split_into_scenes(raw) ==
  LET s == Strip(raw)
  IN IF HasBlank(s) /\ BlankLineParts(s) # <<>>
     THEN BlankLineParts(s)
     ELSE SentenceScenes(s)

----------------------------------------------------------------------------
(* State shared by the specifications *)

\* no scene index
NoIndex == 0 - 1

Idle ==
  /\ keywords = <<>>
  /\ secrets = "absent"
  /\ i = 0
  /\ audio = 0
  /\ query = <<>>
  /\ ok = FALSE
  /\ clips = <<>>
  /\ effects = <<>>
  /\ error = [kind |-> "none", scene |-> NoIndex]
  /\ output = "none"

----------------------------------------------------------------------------
(* SpecSegment: split_into_scenes applied to every short script *)

ScriptChars == {"a", ".", " ", "\n"}

ScriptInputs == UNION {[1..n -> ScriptChars] : n \in 0..MaxScriptLen}

InitSegment ==
  /\ pc = "seg_input"
  /\ script \in ScriptInputs
  /\ scenes = <<>>
  /\ text = <<>>
  /\ fallback = <<>>
  /\ Idle

Segment ==
  /\ pc = "seg_input"
  /\ scenes' = split_into_scenes(script)
  /\ pc' = "seg_done"
  /\ UNCHANGED <<script, keywords, secrets, i, audio, query, ok, clips,
                 effects, error, output, text, fallback>>

NextSegment == Segment

SpecSegment == InitSegment /\ [][NextSegment]_vars

\* the script of SpecSegment, trimmed
Trimmed == Strip(script)

\* position k of s lies in a separator: a whitespace run that holds a blank line
InSeparator(s, k) ==
  /\ s[k] \in WhiteSpace
  /\ \E j \in 1..(Len(s) - 1) :
       /\ s[j] = "\n" /\ s[j + 1] = "\n"
       /\ \A m \in Min(j, k)..Max(j + 1, k) : s[m] \in WhiteSpace

\* where the blank-line-delimited parts of s start
PartStarts(s) ==
  {k \in 1..Len(s) : ~InSeparator(s, k) /\ (k = 1 \/ InSeparator(s, k - 1))}

\* where the part that starts at k ends
PartEnd(s, k) ==
  CHOOSE e \in k..Len(s) :
    /\ \A m \in k..e : ~InSeparator(s, m)
    /\ e = Len(s) \/ InSeparator(s, e + 1)

\* P is exactly the parts of s between separators, in order
IsPartsOf(s, P) ==
  /\ Len(P) = Cardinality(PartStarts(s))
  /\ \A r \in 1..Len(P) :
       \E k \in PartStarts(s) :
         /\ Cardinality({x \in PartStarts(s) : x < k}) = r - 1
         /\ P[r] = SubSeq(s, k, PartEnd(s, k))

\* C1: a script that, trimmed, holds a blank-line separator is split into
\* exactly its blank-line-delimited parts, each trimmed, the empty ones
\* dropped, in their original order
C1_BlankLineParts ==
  (pc = "seg_done" /\ HasBlank(Trimmed)) => IsPartsOf(Trimmed, scenes)

\* C1 witness: a script with blank lines was split in two scenes, and an
\* empty part between two separators was dropped
C1_Witness ==
  /\ pc = "seg_done"
  /\ HasBlank(Trimmed)
  /\ Len(scenes) = 2
  /\ Len(SplitBlank(Trimmed)) = 3

\* C2: a script with no blank-line separator and at least one sentence is
\* split into consecutive groups of its sentences joined by single spaces,
\* 3 sentences in every scene but the last, 1 to 3 in the last
C2_SentenceChunks ==
  (pc = "seg_done" /\ ~HasBlank(script) /\ Sentences(Trimmed) # <<>>) =>
    LET S == Sentences(Trimmed)
        n == Len(S)
    IN /\ Len(scenes) = (n + 2) \div 3
       /\ \A k \in 1..Len(scenes) :
            /\ scenes[k] = Join(SubSeq(S, 3 * (k - 1) + 1, Min(3 * k, n)), <<" ">>)
            /\ scenes[k] # <<>>
            /\ k < Len(scenes) => 3 * k <= n

\* C2 witness: four sentences were grouped into a scene of three and a scene
\* of one
C2_Witness ==
  /\ pc = "seg_done"
  /\ ~HasBlank(script)
  /\ Len(Sentences(Trimmed)) = 4
  /\ Len(scenes) = 2

----------------------------------------------------------------------------
(* safe_keyword_text *)

\* re.sub(r'[^A-Za-z0-9\s]', '', text)
RemoveOther(s) == SelectSeq(s, LAMBDA c : c \in AlnumChars \cup WhiteSpace)

\* length of the run of non-whitespace that starts s
RECURSIVE WordRun(_)
WordRun(s) ==
  IF s # <<>> /\ Head(s) \notin WhiteSpace THEN 1 + WordRun(Tail(s)) ELSE 0

\* re.sub(r'\s+', ' ', s): each whitespace run becomes one space, the rest
\* is copied
RECURSIVE CollapseSpace(_)
CollapseSpace(s) ==
  IF s = <<>> THEN <<>>
  ELSE IF Head(s) \in WhiteSpace
       THEN <<" ">> \o CollapseSpace(Drop(s, SpaceRun(s)))
       ELSE Take(s, WordRun(s)) \o CollapseSpace(Drop(s, WordRun(s)))

\* s.split()
RECURSIVE SplitWords(_)
SplitWords(s) ==
  LET t == LStrip(s)
  IN IF t = <<>> THEN <<>>
     ELSE <<Take(t, WordRun(t))>> \o SplitWords(Drop(t, WordRun(t)))

\* "abstract background"
DefaultPhrase ==
  <<"a","b","s","t","r","a","c","t"," ","b","a","c","k","g","r","o","u","n","d">>

\* a word cap that is off by one
MaxKeywordWordsOff == 6 + 1

\* words[:6]
MaxKeywordWords == 6

\* len(words) < 2
MinSceneWords == 2

safe_keyword_text(t, fb) ==
  LET cleaned == Strip(CollapseSpace(RemoveOther(t)))
      words == SplitWords(cleaned)
  IN IF Len(words) < MinSceneWords /\ fb # <<>>
     THEN fb
     ELSE IF words # <<>>
          THEN Join(Take(words, MaxKeywordWords), <<" ">>)
          ELSE IF fb # <<>> THEN fb ELSE DefaultPhrase

----------------------------------------------------------------------------
(* SpecKeyword: safe_keyword_text applied to short texts and fallbacks *)

TextTokens == {<<"a">>, <<"b", " ">>, <<" ">>, <<"!">>}

RECURSIVE Flatten(_)
Flatten(ts) == IF ts = <<>> THEN <<>> ELSE Head(ts) \o Flatten(Tail(ts))

TextInputs ==
  {Flatten(ts) : ts \in UNION {[1..n -> TextTokens] : n \in 0..MaxTextTokens}}

\* n words "k" separated by single spaces
KWords(n) == Join([j \in 1..n |-> <<"k">>], <<" ">>)

FallbackInputs == {KWords(n) : n \in 0..MaxFallbackWords} \cup {<<" ">>}

InitKeyword ==
  /\ pc = "kw_input"
  /\ text \in TextInputs
  /\ fallback \in FallbackInputs
  /\ script = <<>>
  /\ scenes = <<>>
  /\ Idle

Extract ==
  /\ pc = "kw_input"
  /\ query' = safe_keyword_text(text, fallback)
  /\ pc' = "kw_done"
  /\ UNCHANGED <<script, keywords, secrets, scenes, i, audio, ok, clips,
                 effects, error, output, text, fallback>>

NextKeyword == Extract

SpecKeyword == InitKeyword /\ [][NextKeyword]_vars

\* number of whitespace-separated words of s
WordCount(s) ==
  Cardinality({k \in 1..Len(s) :
                 s[k] \notin WhiteSpace /\ (k = 1 \/ s[k - 1] \in WhiteSpace)})

\* number of alphanumeric words of a scene text
AlnumWordCount(t) == WordCount(RemoveOther(t))

\* C3 as stated: the phrase returned by safe_keyword_text never has more
\* than 6 words, also when it is the fallback
C3_AtMostSixWords == pc = "kw_done" => WordCount(query) <= 6

\* C3 amended: the phrase has at most 6 words unless it is the fallback,
\* which is returned verbatim when the scene text has fewer than 2
\* alphanumeric words and the fallback is not empty
C3_SixWordsOrFallback ==
  pc = "kw_done" =>
    IF AlnumWordCount(text) < 2 /\ fallback # <<>>
    THEN query = fallback
    ELSE WordCount(query) <= 6

\* C3 witness: a scene text of seven words was cut to a phrase of six
C3_Witness ==
  /\ pc = "kw_done"
  /\ AlnumWordCount(text) = 7
  /\ WordCount(query) = 6

----------------------------------------------------------------------------
(* A run: the "Generate Video" handler and build_video *)

\* an external call the run made, in the order the calls were made:
\*   warning      st.warning; what is "no_key" or "fetch_failed", text the query
\*   narrate      gTTS(scene), save, AudioFileClip; res "ok" or "failed", num the duration
\*   fetch        fetch_image_from_pexels past the credential check; text the
\*                query, res its outcome, num the requests.get calls it made
\*   placeholder  make_placeholder_image; text the caption
\*   clip         clips.append; num the clip's duration
\*   encode       write_videofile; what the codec, res "ok" or "failed"
Effect(kind, scene, what, res, txt, num) ==
  [kind |-> kind, scene |-> scene, what |-> what, res |-> res,
   text |-> txt, num |-> num]

\* narration durations, in milliseconds
Durations == {k * DurStep : k \in 1..MaxDurSteps}

\* how a call of the image provider can end
FetchOutcomes ==
  {"timeout", "http_error", "malformed", "no_photos", "no_src",
   "download_error", "found"}

\* the outcomes that raise when raise_for_status() is left out
RaisesNoStatusCheck(o) == o \in {"timeout", "malformed", "download_error"}

\* the outcomes that raise inside the try block
Raises(o) == o \in {"timeout", "http_error", "malformed", "download_error"}

\* the requests.get calls made: the search, and the download when a
\* rendition URL was found
Requests(o) == IF o \in {"download_error", "found"} THEN 2 ELSE 1

\* a credential check that takes any stored key, also an empty one
HasCredentialIfPresent(sec) == sec # "absent"

\* api_key = st.secrets.get("PEXELS_API_KEY", ""); not api_key is false
HasCredential(sec) == sec = "set"

\* "PEXELS_API_KEY" not in st.secrets
KeyMissing(sec) == sec = "absent"

\* fetch_image_from_pexels: what it returns and the calls it makes, when the
\* provider answers with outcome o
fetch_image_from_pexels(sec, q, idx, o) ==
  IF ~HasCredential(sec)
  THEN [ok |-> FALSE, effects |-> <<>>]
  ELSE [ok |-> o = "found",
        effects |->
          <<Effect("fetch", idx, "pexels", o, q, Requests(o))>> \o
          (IF Raises(o)
           THEN <<Effect("warning", idx, "fetch_failed", "", q, 0)>>
           ELSE <<>>)]

\* scene[:120]
CaptionLen == 120

\* a floor of the clip duration that is far too high
MinClipDurationOff == 10 * 100

\* max(audio_clip.duration, 0.1), in milliseconds
MinClipDuration == 100

\* set_duration(max(audio_clip.duration, 0.1))
ClipDuration(a) == Max(a, MinClipDuration)

\* a clip put at the front of the timeline
PrependClip(cs, c) == <<c>> \o cs

\* clips.append(ic)
AppendClip(cs, c) == Append(cs, c)

PrimaryCodec == "libx264"

\* a retry with the codec that just failed
FallbackCodecSame == "libx264"

FallbackCodec == "mpeg4"

\* ten characters of prose
LongChar(k) == IF k % 10 = 0 THEN " " ELSE "w"

\* a paragraph longer than a caption
LongParagraph == [k \in 1..LongLen |-> LongChar(k)]

\* the scripts pasted in the runs of Spec
RunScripts ==
  { <<" ", "\n", " ">>,
    <<"H","i",".","\n","\n","G","o"," ","o","n">>,
    LongParagraph \o <<"\n","\n","b"," ","c">>,
    <<"a"," ","b","."," ","c"," ","d","."," ","e"," ","f","."," ","g"," ","h">>,
    <<"a","\n","\n","b"," ","c","\n","\n","d">> }

\* the topic keywords typed in the runs of Spec
RunKeywords == { <<>>, <<"s","e","a"," ","b","i","r","d","s">> }

NoError == [kind |-> "none", scene |-> NoIndex]

Init ==
  /\ pc = "ui"
  /\ script \in RunScripts
  /\ keywords \in RunKeywords
  /\ secrets \in {"absent", "empty", "set"}
  /\ scenes = <<>>
  /\ i = 0
  /\ audio = 0
  /\ query = <<>>
  /\ ok = FALSE
  /\ clips = <<>>
  /\ effects = <<>>
  /\ error = NoError
  /\ output = "none"
  /\ text = <<>>
  /\ fallback = <<>>

\* the button handler up to the first scene of build_video
Click ==
  /\ pc = "ui"
  /\ IF Strip(script) = <<>>
     THEN /\ pc' = "stopped"
          /\ error' = [kind |-> "input", scene |-> NoIndex]
          /\ UNCHANGED <<scenes, effects>>
     ELSE /\ effects' = IF KeyMissing(secrets)
                        THEN <<Effect("warning", NoIndex, "no_key", "", <<>>, 0)>>
                        ELSE <<>>
          /\ scenes' = split_into_scenes(script)
          /\ pc' = "narrate"
          /\ UNCHANGED error
  /\ i' = 0
  /\ clips' = <<>>
  /\ UNCHANGED <<script, keywords, secrets, audio, query, ok, output, text,
                 fallback>>

\* gTTS(scene), tts.save, AudioFileClip succeed for scene i
NarrateOk ==
  /\ pc = "narrate"
  /\ \E d \in Durations :
       /\ audio' = d
       /\ effects' = Append(effects, Effect("narrate", i, "gtts", "ok", <<>>, d))
  /\ pc' = "image"
  /\ UNCHANGED <<script, keywords, secrets, scenes, i, query, ok, clips,
                 error, output, text, fallback>>

\* gTTS raises for scene i: nothing in build_video or in the handler catches
\* it, and the exception that reaches the caller is the one gTTS raised
NarrateFail ==
  /\ pc = "narrate"
  /\ effects' = Append(effects, Effect("narrate", i, "gtts", "failed", <<>>, 0))
  /\ error' = [kind |-> "narration", scene |-> NoIndex]
  /\ pc' = "failed"
  /\ UNCHANGED <<script, keywords, secrets, scenes, i, audio, query, ok,
                 clips, output, text, fallback>>

\* the image of scene i: the query, the fetch, the placeholder when it fails
ImageStep ==
  /\ pc = "image"
  /\ \E o \in FetchOutcomes :
       LET scene == scenes[i + 1]
           q == safe_keyword_text(scene, keywords)
           r == fetch_image_from_pexels(secrets, q, i, o)
       IN /\ query' = q
          /\ ok' = r.ok
          /\ effects' =
               effects \o r.effects \o
               (IF ~r.ok
                THEN <<Effect("placeholder", i, "", "", Take(scene, CaptionLen), 0)>>
                ELSE <<>>)
  /\ pc' = "clip"
  /\ UNCHANGED <<script, keywords, secrets, scenes, i, audio, clips, error,
                 output, text, fallback>>

\* the clip of scene i, appended to the timeline; then the next scene
ClipStep ==
  /\ pc = "clip"
  /\ LET ic == [scene |-> i, duration |-> ClipDuration(audio), audio |-> audio,
                image |-> IF ok THEN "fetched" ELSE "placeholder"]
     IN /\ clips' = AppendClip(clips, ic)
        /\ effects' = Append(effects, Effect("clip", i, "", "", <<>>, ic.duration))
  /\ i' = i + 1
  /\ pc' = IF i + 1 < Len(scenes) THEN "narrate" ELSE "encode"
  /\ UNCHANGED <<script, keywords, secrets, scenes, audio, query, ok, error,
                 output, text, fallback>>

\* concatenate_videoclips and the first write_videofile
EncodePrimary ==
  /\ pc = "encode"
  /\ \E res \in {"ok", "failed"} :
       /\ effects' = Append(effects, Effect("encode", NoIndex, PrimaryCodec, res, <<>>, 0))
       /\ pc' = IF res = "ok" THEN "done" ELSE "encode_fallback"
       /\ output' = IF res = "ok" THEN PrimaryCodec ELSE output
  /\ UNCHANGED <<script, keywords, secrets, scenes, i, audio, query, ok,
                 clips, error, text, fallback>>

\* the write_videofile of the except branch
EncodeFallback ==
  /\ pc = "encode_fallback"
  /\ \E res \in {"ok", "failed"} :
       /\ effects' = Append(effects, Effect("encode", NoIndex, FallbackCodec, res, <<>>, 0))
       /\ pc' = IF res = "ok" THEN "done" ELSE "failed"
       /\ output' = IF res = "ok" THEN FallbackCodec ELSE output
       /\ error' = IF res = "ok" THEN error
                   ELSE [kind |-> "encoding", scene |-> NoIndex]
  /\ UNCHANGED <<script, keywords, secrets, scenes, i, audio, query, ok,
                 clips, text, fallback>>

Next ==
  \/ Click
  \/ NarrateOk
  \/ NarrateFail
  \/ ImageStep
  \/ ClipStep
  \/ EncodePrimary
  \/ EncodeFallback

Spec == Init /\ [][Next]_vars

\* the duration of concatenate_videoclips(clips): the clips' durations added up
RECURSIVE TimelineDuration(_)
TimelineDuration(cs) ==
  IF cs = <<>> THEN 0 ELSE Head(cs).duration + TimelineDuration(Tail(cs))

----------------------------------------------------------------------------
(* Claims about a run *)

\* the calls of one kind, in the order they were made
Calls(kind) == SelectSeq(effects, LAMBDA e : e.kind = kind)

\* the handler got past the empty-script guard
InRun == pc \in {"narrate", "image", "clip", "encode", "encode_fallback",
                 "done", "failed"}

\* the provider is unconfigured: the credential is absent or empty
Unconfigured == secrets \in {"absent", "empty"}

\* the fetch for scene idx was followed by a warning that names its query
WarnedFor(f) ==
  \E m \in 1..Len(effects) :
    /\ effects[m].kind = "warning"
    /\ effects[m].what = "fetch_failed"
    /\ effects[m].scene = f.scene
    /\ effects[m].text = f.text

\* the scene of fetch f got a placeholder and the run went on to its clip
RecoveredFrom(f) ==
  /\ \E m \in 1..Len(effects) :
       effects[m].kind = "placeholder" /\ effects[m].scene = f.scene
  /\ \/ pc = "clip" /\ i = f.scene
     \/ \E m \in 1..Len(effects) :
          effects[m].kind = "clip" /\ effects[m].scene = f.scene

\* the fetches that failed
FailedFetches ==
  {k \in 1..Len(effects) :
     effects[k].kind = "fetch" /\ effects[k].res # "found"}

\* C4 as stated: every kind of image-fetch failure emits a warning naming
\* the query, is recovered by a placeholder, and the run continues
C4_EveryFailureWarns ==
  \A k \in FailedFetches :
    WarnedFor(effects[k]) /\ RecoveredFrom(effects[k])

\* C4 amended: every image-fetch failure is recovered by a placeholder and
\* the run continues; the warning naming the query is emitted exactly for
\* the failures that are exceptions (timeout or network error, non-2xx
\* response, malformed response, failed download), not for an empty result
\* list or a result without a rendition URL
C4_FailureRecovered ==
  \A k \in FailedFetches :
    /\ RecoveredFrom(effects[k])
    /\ WarnedFor(effects[k]) <=>
         effects[k].res \in {"timeout", "http_error", "malformed", "download_error"}

\* C4 witness: in one finished run a fetch timed out, another got a non-2xx
\* response and another an empty result list
C4_Witness ==
  /\ pc = "done"
  /\ \E k \in FailedFetches : effects[k].res = "timeout"
  /\ \E k \in FailedFetches : effects[k].res = "http_error"
  /\ \E k \in FailedFetches : effects[k].res = "no_photos"

\* C5: with no credential configured a run makes no call to the image
\* provider and renders one placeholder per scene, captioned with the scene
\* text cut to 120 characters: one for each scene whose image step is over,
\* and all N once the scenes are done
C5_UnconfiguredUsesPlaceholders ==
  (InRun /\ Unconfigured) =>
    LET P == Calls("placeholder")
    IN /\ Calls("fetch") = <<>>
       /\ Len(P) = IF pc = "clip" THEN i + 1 ELSE i
       /\ \A k \in 1..Len(P) :
            /\ P[k].scene = k - 1
            /\ P[k].text = SubSeq(scenes[k], 1, Min(120, Len(scenes[k])))
       /\ pc \in {"encode", "encode_fallback", "done"} => Len(P) = Len(scenes)
       /\ \A k \in 1..Len(clips) : clips[k].image = "placeholder"

\* C5 witness: a finished run of two scenes with an empty credential, the
\* first scene longer than a caption
C5_Witness ==
  /\ pc = "done"
  /\ secrets = "empty"
  /\ Len(scenes) = 2
  /\ Len(scenes[1]) > 120
  /\ Len(Calls("placeholder")) = 2

\* C6 as stated: when narration fails for scene i the run aborts, no later
\* scene is narrated or given an image, nothing is encoded, no output file
\* is produced, and the error reported names scene i
C6_NarrationFailureNamesScene ==
  (pc = "failed" /\ error.kind = "narration") =>
    /\ error.scene = i
    /\ Calls("encode") = <<>>
    /\ output = "none"
    /\ \A k \in 1..Len(effects) :
         /\ effects[k].scene <= i
         /\ effects[k].scene = i => effects[k].kind = "narrate"

\* the encoding attempts, in order
Attempts == Calls("encode")

\* C7: the first attempt uses the primary codec; the fallback codec is
\* attempted if and only if the primary attempt failed, and once; the run
\* succeeds if an attempt succeeds and fails if both fail; at most two
\* attempts are made
C7_EncodeFallbackOnce ==
  /\ Len(Attempts) <= 2
  /\ Len(Attempts) >= 1 => Attempts[1].what = "libx264"
  /\ Len(Attempts) = 2 => Attempts[1].res = "failed" /\ Attempts[2].what = "mpeg4"
  /\ (Len(Attempts) = 1 /\ Attempts[1].res = "failed") => pc = "encode_fallback"
  /\ pc = "encode_fallback" => Len(Attempts) = 1
  /\ pc = "done" <=> (Attempts # <<>> /\ Attempts[Len(Attempts)].res = "ok")
  /\ pc = "done" => output = Attempts[Len(Attempts)].what
  /\ (Len(Attempts) = 2 /\ Attempts[2].res = "failed") =>
       pc = "failed" /\ error.kind = "encoding" /\ output = "none"

\* C7 witness: the primary attempt failed and the fallback attempt succeeded
C7_Witness ==
  /\ pc = "done"
  /\ Len(Attempts) = 2
  /\ output = "mpeg4"

\* the narration durations of the run, in scene order
RECURSIVE SumNum(_)
SumNum(es) == IF es = <<>> THEN 0 ELSE Head(es).num + SumNum(Tail(es))

RECURSIVE SumFloored(_)
SumFloored(es) ==
  IF es = <<>> THEN 0
  ELSE (IF Head(es).num >= 100 THEN Head(es).num ELSE 100) + SumFloored(Tail(es))

C9_WarnsWhenUnconfigured ==
  InRun =>
    LET W == SelectSeq(effects, LAMBDA e : e.kind = "warning" /\ e.what = "no_key")
    IN /\ Unconfigured => Len(W) = 1 /\ effects[1].what = "no_key"
       /\ ~Unconfigured => Len(W) = 0

\* the calls made for a scene
SceneCalls ==
  SelectSeq(effects, LAMBDA e :
    e.kind \in {"narrate", "fetch", "placeholder", "clip"}
    \/ (e.kind = "warning" /\ e.what = "fetch_failed"))

\* the place of a call in the processing of its scene
Rank(e) ==
  CASE e.kind = "narrate" -> 1
    [] e.kind = "fetch" -> 2
    [] e.kind = "warning" -> 3
    [] e.kind = "placeholder" -> 4
    [] e.kind = "clip" -> 5

\* C10: scenes are processed one at a time in script order, narration then
\* image then clip; the timeline always holds the clips of the completed
\* scenes in scene order; encoding starts after all N scenes, on N clips
\* whose k-th clip comes from the k-th scene
C10_SequentialInOrder ==
  InRun =>
    /\ \A k \in 1..(Len(SceneCalls) - 1) :
         LET a == SceneCalls[k]
             b == SceneCalls[k + 1]
         IN \/ a.scene = b.scene /\ Rank(a) < Rank(b)
            \/ b.scene = a.scene + 1 /\ a.kind = "clip" /\ b.kind = "narrate"
    /\ SceneCalls # <<>> => SceneCalls[1].kind = "narrate" /\ SceneCalls[1].scene = 0
    /\ \A k \in 1..Len(SceneCalls) :
         SceneCalls[k].kind = "clip" =>
           /\ \E m \in 1..(k - 1) :
                /\ SceneCalls[m].kind = "narrate"
                /\ SceneCalls[m].res = "ok"
                /\ SceneCalls[m].scene = SceneCalls[k].scene
           /\ \E m \in 1..(k - 1) :
                /\ SceneCalls[m].scene = SceneCalls[k].scene
                /\ \/ SceneCalls[m].kind = "placeholder"
                   \/ SceneCalls[m].kind = "fetch" /\ SceneCalls[m].res = "found"
    /\ Len(clips) = Len(Calls("clip"))
    /\ Len(clips) = i
    /\ \A k \in 1..Len(clips) : clips[k].scene = k - 1
    /\ \A m \in 1..Len(effects) :
         effects[m].kind = "encode" =>
           /\ Len(clips) = Len(scenes)
           /\ \A n \in (m + 1)..Len(effects) : effects[n].kind = "encode"
    /\ pc \in {"encode", "encode_fallback", "done"} => Len(clips) = Len(scenes)

\* C10 witness: a finished run of three scenes, one of them with a fetched
\* image
C10_Witness ==
  /\ pc = "done"
  /\ Len(scenes) = 3
  /\ Len(clips) = 3
  /\ \E k \in 1..3 : clips[k].image = "fetched"

====
